---- MODULE Spec2Model ----
(***************************************************************************)
(* Model of server.js of g2-tool-scanner: four revisions of the same       *)
(* service (G2 API v2, Product Hunt, G2 scraping, G2 API v1), each with a  *)
(* scoreProducts ranking function, a justification step and a POST         *)
(* /api/scan handler.                                                      *)
(*                                                                         *)
(* Representation.  A JavaScript string is a sequence of one-character     *)
(* strings.  A fractional number is kept as an integer at a fixed scale:   *)
(* ratings in tenths (4.5 is 45), a Product Hunt score as 17 times the     *)
(* JavaScript number (rawScore / 170 * 100 = 10 * rawScore / 17), a G2     *)
(* score as 10 times the JavaScript number.  A field that is missing, null *)
(* or undefined in the JavaScript object is named in the record's "absent" *)
(* set and holds the value the code's `|| default` would give it.          *)
(***************************************************************************)
EXTENDS Integers, Sequences, FiniteSets

VARIABLES
    \* ---- the functions applied directly to their inputs (SpecCore) ----
    cVariant,     \* which revision's functions are applied
    cCriteria,    \* the criteria argument
    cProducts,    \* the products argument
    cRanked,      \* what scoreProducts returned
    cOutput,      \* the justified top three
    cFirst,       \* cOutput of the first of two runs over the same arguments
    cRun,         \* 1 or 2
    cPc,          \* "input", "scored", "justified", "threw"
    \* ---- one POST /api/scan request (Spec) ----
    variant,      \* which revision serves the request
    pc,           \* position of the handler
    body,         \* req.body
    upstreamCalls,\* number of requests issued to the upstream collaborator
    upstream,     \* the products the upstream collaborator replied with
    allProducts,  \* what the search returned to the handler
    ranked,       \* scoreProducts(allProducts, criteria)
    top3,         \* the slice the response is built from
    lookups,      \* per top3 entry: "pending", the highlight fetched, or "TypeError"
    response,     \* what res.status(..).json(..) sent
    g2Serves,     \* scraping revision: whether g2.com serves the listed pages
    \* ---- searchG2Products of the scraping revision (SpecScrape) ----
    sPc,          \* "off", "call", "loop", "request", "delay", "returned", "threw"
    sCriteria,    \* the criteria argument
    sUrls,        \* matchingUrls, as positions in G2_PRODUCTS
    sNext,        \* position in matchingUrls of the url the loop is at
    sCount,       \* products.length
    sInFlight,    \* scrape requests issued and not yet settled
    sWaited       \* ms of delay since the previous scrape request settled

coreVars == <<cVariant, cCriteria, cProducts, cRanked, cOutput, cFirst, cRun, cPc>>
scanVars == <<variant, pc, body, upstreamCalls, upstream, allProducts, ranked,
              top3, lookups, response, g2Serves>>
scrapeVars == <<sPc, sCriteria, sUrls, sNext, sCount, sInFlight, sWaited>>
vars == <<coreVars, scanVars, scrapeVars>>

\* ------------------------------------------------------------------ bounds
\* Longest products list handed to scoreProducts directly.
MaxProducts == 2
\* Longest list the upstream collaborator returns to a request.
MaxPosts == 4
\* Number of URLs in g2-products-links.json.
ListedUrls == 23

\* ------------------------------------------------------------- JavaScript
Min(a, b) == IF a < b THEN a ELSE b

UpperChars == <<"A","B","C","D","E","F","G","H","I","J","K","L","M",
                "N","O","P","Q","R","S","T","U","V","W","X","Y","Z">>
LowerChars == <<"a","b","c","d","e","f","g","h","i","j","k","l","m",
                "n","o","p","q","r","s","t","u","v","w","x","y","z">>

\* String.prototype.toLowerCase
LowerChar(c) ==
    IF \E i \in 1..Len(UpperChars) : UpperChars[i] = c
    THEN LowerChars[CHOOSE i \in 1..Len(UpperChars) : UpperChars[i] = c]
    ELSE c
ToLowerCase(s) == [i \in 1..Len(s) |-> LowerChar(s[i])]

\* String.prototype.includes
Includes(s, w) ==
    \E i \in 0..(Len(s) - Len(w)) : SubSeq(s, i + 1, i + Len(w)) = w

\* String.prototype.split(' '): consecutive spaces give empty words
RECURSIVE SplitSpace(_)
SplitSpace(s) ==
    IF \E i \in 1..Len(s) : s[i] = " "
    THEN LET i == CHOOSE k \in 1..Len(s) :
                      s[k] = " " /\ \A j \in 1..(k - 1) : s[j] # " "
         IN  <<SubSeq(s, 1, i - 1)>> \o SplitSpace(SubSeq(s, i + 1, Len(s)))
    ELSE <<s>>

\* Array.prototype.join(' ')
RECURSIVE JoinSpace(_)
JoinSpace(ws) ==
    IF ws = <<>> THEN <<>>
    ELSE IF Len(ws) = 1 THEN ws[1]
    ELSE ws[1] \o <<" ">> \o JoinSpace(Tail(ws))

\* String.prototype.trim (the only white space of the model is the space)
RECURSIVE TrimStart(_)
TrimStart(s) == IF s # <<>> /\ s[1] = " " THEN TrimStart(Tail(s)) ELSE s
RECURSIVE TrimEnd(_)
TrimEnd(s) ==
    IF s # <<>> /\ s[Len(s)] = " " THEN TrimEnd(SubSeq(s, 1, Len(s) - 1)) ELSE s
Trim(s) == TrimEnd(TrimStart(s))

\* String.prototype.substring(0, n)
Substring0(s, n) == SubSeq(s, 1, Min(n, Len(s)))

\* Math.round(num / den) for num >= 0, den > 0
Round(num, den) == (2 * num + den) \div (2 * den)

\* A template literal `${v}` prints a null field as the text "null".
NullText == <<"n","u","l","l">>

Has(o, f) == f \notin o.absent

\* criteria.toLowerCase().split(' ').filter(w => w.length > minLen)
Keywords(crit, minLen) ==
    SelectSeq(SplitSpace(ToLowerCase(crit)), LAMBDA w : Len(w) > minLen)

RECURSIVE SumSeq(_)
SumSeq(ns) == IF ns = <<>> THEN 0 ELSE ns[1] + SumSeq(Tail(ns))

\* Array.prototype.sort((a, b) => b.score - a.score): descending by score,
\* stable (equal scores keep their input order).
\* the comparator with its operands exchanged (ascending)
CompareScore_Ascending(a, b) == a.score - b.score

CompareScore(a, b) == b.score - a.score

RECURSIVE InsertSorted(_, _)
InsertSorted(x, s) ==
    IF s = <<>> THEN <<x>>
    ELSE IF CompareScore(s[Len(s)], x) <= 0 THEN Append(s, x)
    ELSE Append(InsertSorted(x, SubSeq(s, 1, Len(s) - 1)), s[Len(s)])

RECURSIVE SortByScore(_)
SortByScore(s) ==
    IF s = <<>> THEN <<>>
    ELSE InsertSorted(s[Len(s)], SortByScore(SubSeq(s, 1, Len(s) - 1)))

\* {...product, score, relevanceScore}
Spread(product, score, relevanceScore) ==
    [f \in DOMAIN product \cup {"score", "relevanceScore"} |->
        IF f = "score" THEN score
        ELSE IF f = "relevanceScore" THEN relevanceScore
        ELSE product[f]]

\* ------------------------------------------------- Product Hunt revision
\* product.votesCount || 0 (and its like)
OrZero(o, f) == IF Has(o, f) THEN o[f] ELSE 0

\* (product.name || '').toLowerCase() (and its like)
LowerField(o, f) == IF Has(o, f) THEN ToLowerCase(o[f]) ELSE <<>>

\* product.topics?.edges?.map(e => e.node.name.toLowerCase()).join(' ') || ''
TopicsText(o) ==
    IF Has(o, "topics")
    THEN JoinSpace([i \in 1..Len(o.topics) |-> ToLowerCase(o.topics[i])])
    ELSE <<>>

\* the four tests of keywords.forEach in scoreProducts, for one word
WordHitsPH(product, word) ==
    <<Includes(LowerField(product, "name"), word),
      Includes(LowerField(product, "tagline"), word),
      Includes(LowerField(product, "description"), word),
      Includes(TopicsText(product), word)>>

WeightsPH == <<40, 25, 10, 15>>

\* what one word adds: weights[j] for every field j that includes it
HitsPH(product, word, weights) ==
    LET hit == WordHitsPH(product, word)
    IN  SumSeq([j \in 1..4 |-> IF hit[j] THEN weights[j] ELSE 0])

RelevancePH(product, keywords) ==
    SumSeq([k \in 1..Len(keywords) |-> HitsPH(product, keywords[k], WeightsPH)])

\* number of field-keyword hits behind relevanceScore
KeywordMatchesPH(product, keywords) ==
    SumSeq([k \in 1..Len(keywords) |-> HitsPH(product, keywords[k], <<1, 1, 1, 1>>)])

\* votesScore + reviewScore + ratingScore + popularityBonus, times 10
PopularityPH(product) ==
    LET votesCount    == OrZero(product, "votesCount")
        reviewsCount  == OrZero(product, "reviewsCount")
        reviewsRating == OrZero(product, "reviewsRating")
        votesScore      == Min(votesCount, 300)
        reviewScore     == IF reviewsCount > 0 THEN Min(reviewsCount * 20, 250) ELSE 0
        ratingScore     == IF reviewsRating > 0 THEN reviewsRating * 5 ELSE 0
        popularityBonus == IF votesCount > 500 THEN 200
                           ELSE IF votesCount > 200 THEN 100 ELSE 0
    IN  votesScore + reviewScore + ratingScore + popularityBonus

\* rawScore, times 10
RawScorePH(product, keywords) ==
    PopularityPH(product) + 10 * RelevancePH(product, keywords)

\* NormalizePH without Math.min
NormalizePH_NoCap(rawScore10) == rawScore10

\* Math.min((rawScore / 170) * 100, 100), times 17
NormalizePH(rawScore10) == Min(rawScore10, 1700)

ScoreOnePH(product, keywords) ==
    Spread(product, NormalizePH(RawScorePH(product, keywords)),
           RelevancePH(product, keywords))

ScoreProductsPH(products, crit) ==
    LET keywords == Keywords(crit, 2)
    IN  SortByScore([i \in 1..Len(products) |-> ScoreOnePH(products[i], keywords)])

\* the keyword filter of searchProductHunt
FullTextPH(post) ==
    LET name     == IF Has(post, "name") THEN post.name ELSE NullText
        tagline  == IF Has(post, "tagline") THEN post.tagline ELSE NullText
        descr    == IF Has(post, "description") THEN post.description ELSE <<>>
        searchText == ToLowerCase(name \o <<" ">> \o tagline \o <<" ">> \o descr)
    IN  searchText \o <<" ">> \o TopicsText(post)

PassesFilterPH(post, keywords) ==
    \E k \in 1..Len(keywords) : Includes(FullTextPH(post), keywords[k])

FilterPostsPH(posts, crit) ==
    LET keywords == Keywords(crit, 2)
    IN  SelectSeq(posts, LAMBDA post : PassesFilterPH(post, keywords))

\* generateJustification: a reason is [kind, n1, n2]; n1, n2 are the numbers
\* the sentence prints.
Reason(kind, n1, n2) == [kind |-> kind, n1 |-> n1, n2 |-> n2]

\* TierReasonPH with the 500 threshold tested by >=
TierReasonPH_AtLeast500(product) ==
    IF Has(product, "votesCount") /\ product.votesCount >= 500
    THEN Reason("Highly popular choice in the community", 0, 0)
    ELSE IF Has(product, "votesCount") /\ product.votesCount > 200
    THEN Reason("Well-regarded by users", 0, 0)
    ELSE Reason("Trusted by early adopters", 0, 0)

TierReasonPH(product) ==
    IF Has(product, "votesCount") /\ product.votesCount > 500
    THEN Reason("Highly popular choice in the community", 0, 0)
    ELSE IF Has(product, "votesCount") /\ product.votesCount > 200
    THEN Reason("Well-regarded by users", 0, 0)
    ELSE Reason("Trusted by early adopters", 0, 0)

ReasonsPH(product) ==
    LET votes   == Has(product, "votesCount") /\ product.votesCount > 0
        reviews == Has(product, "reviewsCount") /\ product.reviewsCount > 0
        rating  == Has(product, "reviewsRating") /\ product.reviewsRating > 0
    IN  (IF votes
         THEN <<Reason("upvotes from Product Hunt community", product.votesCount, 0)>>
         ELSE <<>>)
        \o (IF reviews /\ rating
            THEN <<Reason("/5 rating from reviews", product.reviewsRating,
                          product.reviewsCount)>>
            ELSE IF reviews
            THEN <<Reason("user reviews", product.reviewsCount, 0)>>
            ELSE <<>>)
        \o <<TierReasonPH(product)>>

Medals == <<"gold", "silver", "bronze">>

HighlightPH(product) ==
    IF Has(product, "tagline") /\ product.tagline # <<>>
    THEN [kind |-> "tagline", text |-> product.tagline]
    ELSE IF Has(product, "description") /\ product.description # <<>>
    THEN [kind |-> "description", text |-> Substring0(product.description, 150)]
    ELSE [kind |-> "Innovative solution for your needs.", text |-> <<>>]

GenerateJustification(product, rank) ==
    [score     |-> Round(product.score, 17),
     highlight |-> HighlightPH(product),
     reasons   |-> ReasonsPH(product),
     medal     |-> IF rank \in 1..3 THEN Medals[rank] ELSE ""]

\* one entry of results in the Product Hunt handler
ResultPH(product, index) ==
    [rank          |-> index,
     id            |-> product.id,
     justification |-> GenerateJustification(product, index)]

\* ------------------------------------------------------------ G2 revisions
\* A G2 product is written with the names of the scored object (starRating,
\* reviewCount, avgRating); the API revisions read them from
\* attributes.star_rating, .review_count and parseFloat(.avg_rating), the
\* scraping revision from the scraped object.  "reviews" absent: the reviews
\* endpoint has no review of the product; otherwise love is the first
\* review's comment_answers.love.value, <<>> when it has none.

\* ratingScore + reviewScore + avgScore + popularityBonus, times 10
PopularityG2(product) ==
    LET starRating  == OrZero(product, "starRating")
        reviewCount == OrZero(product, "reviewCount")
        avgRating   == OrZero(product, "avgRating")
        ratingScore == starRating * 20
        reviewScore == Min(reviewCount, 300)
        avgScore    == avgRating * 3
        popularityBonus == IF reviewCount > 100 THEN 200
                           ELSE IF reviewCount > 50 THEN 100 ELSE 0
    IN  ratingScore + reviewScore + avgScore + popularityBonus

\* criteriaWords.forEach: 30 for the name, 10 for the description
RelevanceG2(name, description, criteriaWords) ==
    SumSeq([k \in 1..Len(criteriaWords) |->
        (IF Includes(name, criteriaWords[k]) THEN 30 ELSE 0)
        + (IF Includes(description, criteriaWords[k]) THEN 10 ELSE 0)])

\* attrs.description || attrs.detail_description || fallback
DescriptionOr(product, fallback) ==
    IF Has(product, "description") /\ product.description # <<>>
    THEN product.description
    ELSE IF Has(product, "detail_description") /\ product.detail_description # <<>>
    THEN product.detail_description
    ELSE fallback

NoDescription == <<"N","o"," ","d","e","s","c","r","i","p","t","i","o","n">>

\* the object scoreProducts of the G2 API v2 revision builds
ScoreOneV2(product, crit) ==
    LET relevanceScore ==
            RelevanceG2(LowerField(product, "name"),
                        ToLowerCase(DescriptionOr(product, <<>>)),
                        Keywords(crit, 3))
    IN  [id             |-> product.id,
         score          |-> PopularityG2(product) + 10 * relevanceScore,
         name           |-> IF Has(product, "name") THEN product.name ELSE <<>>,
         starRating     |-> OrZero(product, "starRating"),
         reviewCount    |-> OrZero(product, "reviewCount"),
         avgRating      |-> OrZero(product, "avgRating"),
         description    |-> DescriptionOr(product, NoDescription),
         relevanceScore |-> relevanceScore]

ScoreProductsV2(products, crit) ==
    SortByScore([i \in 1..Len(products) |-> ScoreOneV2(products[i], crit)])

\* the scraping revision spreads the scraped object
ScoreOneScrape(product, crit) ==
    LET relevanceScore ==
            RelevanceG2(LowerField(product, "name"),
                        LowerField(product, "description"),
                        Keywords(crit, 3))
    IN  Spread(product, PopularityG2(product) + 10 * relevanceScore, relevanceScore)

ScoreProductsScrape(products, crit) ==
    SortByScore([i \in 1..Len(products) |-> ScoreOneScrape(products[i], crit)])

\* the G2 API v1 revision scores without the criteria
ScoreOneV1(product) ==
    [id          |-> product.id,
     score       |-> PopularityG2(product),
     name        |-> IF Has(product, "name") THEN product.name ELSE <<>>,
     starRating  |-> OrZero(product, "starRating"),
     reviewCount |-> OrZero(product, "reviewCount"),
     avgRating   |-> OrZero(product, "avgRating"),
     description |-> DescriptionOr(product, NoDescription)]

ScoreProductsV1(products) ==
    SortByScore([i \in 1..Len(products) |-> ScoreOneV1(products[i])])

\* getTopReviewHighlight of the API revisions; reviews is what
\* getProductReviews returned: <<>> (also after a failed request) or the
\* love answers of the reviews
HighlightOfReviews(reviews) ==
    IF Len(reviews) > 0
    THEN IF reviews[1] # <<>>
         THEN [kind |-> "loveAnswer", text |-> reviews[1]]
         ELSE [kind |-> "Users highly recommend this product.", text |-> <<>>]
    ELSE [kind |-> "Highly rated by G2 users.", text |-> <<>>]

\* getTopReviewHighlight of the scraping revision: highlights[k], where
\* k = Math.floor(Math.random() * highlights.length)
LastWord(s) == LET ws == SplitSpace(s) IN ws[Len(ws)]

ScrapeHighlights(product) ==
    <<[kind |-> "Users praise NAME for its ease of use and powerful features.",
       text |-> product.name],
      [kind |-> "Highly recommended for teams looking for WORD solutions.",
       text |-> ToLowerCase(LastWord(product.name))],
      [kind |-> "NAME delivers excellent value with strong customer support.",
       text |-> product.name],
      [kind |-> "Users appreciate the intuitive interface and robust functionality.",
       text |-> <<>>],
      [kind |-> "Great tool that saves time and improves productivity.",
       text |-> <<>>]>>

\* the three reasons of the G2 handlers
ReasonsG2(product) ==
    <<Reason("/5 star rating from reviews", product.starRating, product.reviewCount),
      Reason("Average rating: /10", product.avgRating, 0),
      IF product.reviewCount > 100
      THEN Reason("Highly popular choice", 0, 0)
      ELSE Reason("Trusted by users", 0, 0)>>

\* one entry of resultsWithHighlights
ResultG2(product, index, highlight) ==
    [rank          |-> index,
     id            |-> product.id,
     justification |-> [score     |-> Round(product.score, 10),
                        highlight |-> highlight,
                        reasons   |-> ReasonsG2(product)]]

\* rankedProducts.filter(p => p.reviewCount > 0)
WithReviews(rankedProducts) == SelectSeq(rankedProducts, LAMBDA p : p.reviewCount > 0)

\* slice(0, 2) in place of slice(0, 3)
Slice3_Two(s) == SubSeq(s, 1, Min(2, Len(s)))

\* Array.prototype.slice(0, 3)
Slice3(s) == SubSeq(s, 1, Min(3, Len(s)))

\* ------------------------------------------------------------------ inputs
T_Foo     == <<"F","o","o">>
T_TaskApp == <<"T","a","s","k"," ","a","p","p">>
T_Task    == <<"T","a","s","k">>
T_task    == <<"t","a","s","k">>
T_aTask   == <<"a"," ","t","a","s","k">>
T_Love    == <<"L","o","v","e">>

\* criteria texts: "ai" (no usable word), "null", "Task  app" (two spaces)
C_ai      == <<"a","i">>
C_null    == <<"n","u","l","l">>
C_TaskApp == <<"T","a","s","k"," "," ","a","p","p">>
Criteria  == {C_ai, C_null, C_TaskApp}

Variants == {"v2", "ph", "scrape", "v1"}

NumericFields == {"votesCount", "reviewsCount", "reviewsRating",
                  "starRating", "reviewCount", "avgRating"}

\* an absent field holds the value its `|| default` gives
Canonical(r) ==
    \A f \in r.absent : r[f] = (IF f \in NumericFields THEN 0 ELSE <<>>)

\* Product Hunt posts; reviewsRating is on the 0-5 scale, in tenths
PHPosts ==
    {r \in [id : {0}, name : {T_Foo, T_TaskApp}, tagline : {<<>>, T_task},
            description : {<<>>, T_aTask}, topics : {<<>>, <<T_Task>>},
            votesCount : {0, 200, 500, 501}, reviewsCount : {0, 13},
            reviewsRating : {0, 45, 50},
            absent : {{}, {"tagline"}, {"description", "topics"},
                      {"votesCount", "reviewsCount", "reviewsRating"}}] :
        Canonical(r)}

\* the posts that lists of several are drawn from
PHFew ==
    {r \in PHPosts :
        /\ r.absent = {} /\ r.topics = <<>> /\ r.description = <<>>
        /\ \/ r.votesCount = 0 /\ r.reviewsCount = 0 /\ r.reviewsRating = 0
           \/ r.votesCount = 501 /\ r.reviewsCount = 13 /\ r.reviewsRating = 50}

\* G2 products; starRating is on the 0-5 scale and avgRating on the 0-10
\* scale, both in tenths
G2Products ==
    {r \in [id : {0}, name : {T_Foo, T_TaskApp}, description : {<<>>, T_aTask},
            detail_description : {<<>>, T_task},
            starRating : {0, 50}, reviewCount : {0, 51, 101, 400},
            avgRating : {0, 100}, reviews : {<<>>, <<<<>>>>, <<T_Love>>},
            absent : {{}, {"reviews"}, {"starRating", "reviewCount", "avgRating"},
                      {"description", "detail_description"}}] :
        /\ Canonical(r)
        /\ (Has(r, "reviews") => r.reviews # <<>>)}

G2Few ==
    {r \in G2Products :
        /\ r.absent = {} /\ r.detail_description = <<>> /\ r.reviews = <<T_Love>>
        /\ r.avgRating = 0
        /\ \/ r.starRating = 0 /\ r.reviewCount = 0
           \/ r.starRating = 50 /\ r.reviewCount = 101}

\* what scrapeG2Product builds: every field set, no reviews endpoint
Scraped ==
    {r \in G2Products :
        r.absent = {} /\ r.detail_description = <<>> /\ r.reviews = <<T_Love>>}

\* records scoreProducts cannot read.  G2 API revisions: a product without
\* its attributes object.  Product Hunt: a post one of whose topics has a null
\* name ("topicName" in absent).  The scraping revision reads the fields of
\* the product itself and has no such record.
Malformed(v) ==
    CASE v = "ph" ->
            {[r EXCEPT !.absent = {"topicName"}] :
                r \in {q \in PHPosts : q.absent = {} /\ q.topics # <<>>
                                        /\ q.votesCount = 501 /\ q.reviewsCount = 13
                                        /\ q.reviewsRating = 50}}
      [] v \in {"v2", "v1"} ->
            {[id |-> 0, name |-> <<>>, description |-> <<>>,
              detail_description |-> <<>>, starRating |-> 0, reviewCount |-> 0,
              avgRating |-> 0, reviews |-> r, absent |-> {"attributes"}] :
                r \in {<<>>, <<T_Love>>}}
      [] v = "scrape" -> {}

\* the lists of length n over S
Lists(S, n) == [1..n -> S]

\* product.id: the position in the upstream list
WithIds(list) == [i \in 1..Len(list) |-> [list[i] EXCEPT !.id = i]]

\* every single product, and every list of up to MaxProducts of the few
\* (the scraping revision draws Math.random per entry: single products)
CoreLists(v) ==
    LET all == IF v = "ph" THEN PHPosts
               ELSE IF v = "scrape" THEN Scraped ELSE G2Products
        few == IF v = "ph" THEN PHFew ELSE G2Few
    IN  Lists(all \cup Malformed(v), 1) \cup
        (IF v = "scrape" THEN {} ELSE UNION {Lists(few, n) : n \in 0..MaxProducts})

\* --------------------------------------- the functions applied to inputs
\* the map callback of scoreProducts throws a TypeError on this product:
\* attrs.star_rating with attrs undefined (G2 API revisions),
\* e.node.name.toLowerCase() with name null (Product Hunt)
ThrowsOn(v, product) ==
    CASE v = "ph"           -> Has(product, "topics") /\ "topicName" \in product.absent
      [] v \in {"v2", "v1"} -> "attributes" \in product.absent
      [] v = "scrape"       -> FALSE

\* products.map(..) throws as soon as its callback does
ScoreThrows(v, products) ==
    \E i \in 1..Len(products) : ThrowsOn(v, products[i])

ScoreProducts(v, products, crit) ==
    CASE v = "ph"     -> ScoreProductsPH(products, crit)
      [] v = "v2"     -> ScoreProductsV2(products, crit)
      [] v = "scrape" -> ScoreProductsScrape(products, crit)
      [] v = "v1"     -> ScoreProductsV1(products)

\* the slice of rankedProducts the handler answers with
Top3(v, rankedProducts) ==
    IF v \in {"v2", "scrape"} THEN Slice3(WithReviews(rankedProducts))
    ELSE Slice3(rankedProducts)

\* what getProductReviews(id) returns when the request succeeds
ReviewsOf(products, id) ==
    LET p == products[CHOOSE i \in 1..Len(products) : products[i].id = id]
    IN  IF Has(p, "reviews") THEN p.reviews ELSE <<>>

\* the results a handler can build from top: one per choice of Math.random
ResultsOf(v, top, products) ==
    CASE v = "ph" ->
            {[i \in 1..Len(top) |-> ResultPH(top[i], i)]}
      [] v \in {"v2", "v1"} ->
            {[i \in 1..Len(top) |->
                ResultG2(top[i], i, HighlightOfReviews(ReviewsOf(products, top[i].id)))]}
      [] v = "scrape" ->
            {[i \in 1..Len(top) |-> ResultG2(top[i], i, ScrapeHighlights(top[i])[ks[i]])] :
                ks \in [1..Len(top) -> 1..5]}

CoreInit ==
    /\ cVariant \in Variants
    /\ cCriteria \in Criteria
    /\ cProducts \in {WithIds(l) : l \in CoreLists(cVariant)}
    /\ cRanked = <<>>
    /\ cOutput = <<>>
    /\ cFirst = <<>>
    /\ cRun = 1
    /\ cPc = "input"

\* res.status(status).json({error | results, message})
Response(status, kind, results) == [status |-> status, kind |-> kind, results |-> results]
NoResponse == Response(0, "none", <<>>)

\* the handler's catch: res.status(500).json({error, message: error.message})
Failure(error, message) ==
    [status |-> 500, kind |-> error, results |-> <<>>, message |-> message]

FailureOf(v, message) ==
    Failure(IF v = "ph" THEN "Failed to scan Product Hunt"
            ELSE "Failed to scan G2 marketplace", message)

ScanIdle ==
    /\ variant = "v2"
    /\ pc = "idle"
    /\ body = [criteria |-> <<>>, absent |-> {"criteria"}]
    /\ upstreamCalls = 0
    /\ upstream = <<>>
    /\ allProducts = <<>>
    /\ ranked = <<>>
    /\ top3 = <<>>
    /\ lookups = <<>>
    /\ response = NoResponse
    /\ g2Serves = FALSE

\* searchG2Products of the scraping revision is not running
ScrapeParked ==
    /\ sPc = "off" /\ sCriteria = [criteria |-> <<>>, absent |-> {"criteria"}]
    /\ sUrls = <<>> /\ sNext = 0 /\ sCount = 0 /\ sInFlight = 0 /\ sWaited = 0

\* scoreProducts(products, criteria)
CoreScore ==
    /\ cPc = "input"
    /\ IF ScoreThrows(cVariant, cProducts)
       THEN cRanked' = <<>> /\ cPc' = "threw"
       ELSE /\ cRanked' = ScoreProducts(cVariant, cProducts, cCriteria)
            /\ cPc' = "scored"
    /\ UNCHANGED <<cVariant, cCriteria, cProducts, cOutput, cFirst, cRun>>

\* the handler's slice and justification of the ranked products
CoreJustify ==
    /\ cPc = "scored"
    /\ cOutput' \in ResultsOf(cVariant, Top3(cVariant, cRanked), cProducts)
    /\ cPc' = "justified"
    /\ UNCHANGED <<cVariant, cCriteria, cProducts, cRanked, cFirst, cRun>>

\* the same arguments are ranked a second time
CoreRerun ==
    /\ cPc = "justified"
    /\ cRun = 1
    /\ cFirst' = [ranked |-> cRanked, output |-> cOutput]
    /\ cRun' = 2
    /\ cRanked' = <<>>
    /\ cOutput' = <<>>
    /\ cPc' = "input"
    /\ UNCHANGED <<cVariant, cCriteria, cProducts>>

CoreNext ==
    \/ CoreScore /\ UNCHANGED <<scanVars, scrapeVars>>
    \/ CoreJustify /\ UNCHANGED <<scanVars, scrapeVars>>
    \/ CoreRerun /\ UNCHANGED <<scanVars, scrapeVars>>

InitCore == CoreInit /\ ScanIdle /\ ScrapeParked

SpecCore == InitCore /\ [][CoreNext]_vars

\* ------------------------------------------------- claims on the functions
CoreScored == cPc \in {"scored", "justified"}
KeywordsPH == Keywords(cCriteria, 2)
Positions == 1..Len(cRanked)

\* C1: Product Hunt revision: every element scoreProducts returns has
\* 0 <= score <= 100 (score is kept times 17), for counts and ratings that are
\* >= 0 or missing and every criteria.
C1_ScoreBoundPH ==
    (cVariant = "ph" /\ CoreScored) =>
        \A i \in Positions : 0 <= cRanked[i].score /\ cRanked[i].score <= 100 * 17

\* a product whose raw score exceeds 170 was scored, and capped at 100
C1_Witness ==
    /\ cVariant = "ph" /\ CoreScored
    /\ \E i \in Positions :
        /\ RawScorePH(cRanked[i], KeywordsPH) > 1700
        /\ cRanked[i].score = 100 * 17

\* C2: G2 revisions: every element scoreProducts returns has 0 <= score <= 100
\* (score is kept times 10), for star ratings in 0..5, average ratings in
\* 0..10 and review counts >= 0.
C2_ScoreBoundG2 ==
    (cVariant \in {"v2", "scrape", "v1"} /\ CoreScored) =>
        \A i \in Positions : 0 <= cRanked[i].score /\ cRanked[i].score <= 100 * 10

\* C5: with a non-empty keyword set, a product with relevanceScore > 0 is
\* placed before every product with relevanceScore = 0 scored with it,
\* whatever their popularity metrics.
C5_RelevanceDominates ==
    (/\ cVariant \in {"ph", "v2"} /\ CoreScored
     /\ Keywords(cCriteria, IF cVariant = "ph" THEN 2 ELSE 3) # <<>>) =>
        \A i, j \in Positions :
            (cRanked[i].relevanceScore > 0 /\ cRanked[j].relevanceScore = 0) => i < j

SamePopularityPH(a, b) ==
    /\ OrZero(a, "votesCount") = OrZero(b, "votesCount")
    /\ OrZero(a, "reviewsCount") = OrZero(b, "reviewsCount")
    /\ OrZero(a, "reviewsRating") = OrZero(b, "reviewsRating")

\* A has two keyword matches, B none, and their popularity metrics agree
DominancePair(a, b) ==
    /\ KeywordMatchesPH(a, KeywordsPH) = 2
    /\ KeywordMatchesPH(b, KeywordsPH) = 0
    /\ SamePopularityPH(a, b)

\* C6: Product Hunt revision: of two products with identical popularity
\* metrics, A with 2 keyword matches and B with none, A gets the strictly
\* greater score and is placed before B, in either input order.
C6_DominanceEqualPopularity ==
    (cVariant = "ph" /\ CoreScored /\ KeywordsPH # <<>>) =>
        \A i, j \in Positions :
            DominancePair(cRanked[i], cRanked[j]) =>
                cRanked[i].score > cRanked[j].score /\ i < j

\* such a pair was scored with B before A in the input, and popular enough
\* for A to be capped
C6_Witness ==
    /\ cVariant = "ph" /\ CoreScored /\ KeywordsPH # <<>>
    /\ \E i, j \in Positions :
        /\ DominancePair(cRanked[i], cRanked[j])
        /\ cRanked[j].id < cRanked[i].id
        /\ cRanked[i].votesCount = 501

\* C7: Product Hunt revision: rawScore <= 170 for every product with
\* reviewsRating in 0..5 and every criteria, so the cap at 100 leaves products
\* of different raw scores in the order of their raw scores.
C7_MaxRawScore170 ==
    (cVariant = "ph" /\ CoreScored) =>
        /\ \A i \in Positions : RawScorePH(cRanked[i], KeywordsPH) <= 1700
        /\ \A i, j \in Positions :
            (i < j /\ RawScorePH(cRanked[i], KeywordsPH) # RawScorePH(cRanked[j], KeywordsPH))
                => RawScorePH(cRanked[i], KeywordsPH) > RawScorePH(cRanked[j], KeywordsPH)

\* C8: in every revision, two runs over identical products and criteria give
\* identical scores, ordering and justification (highlight included).
C8_Determinism ==
    (cRun = 2 /\ cPc = "justified") =>
        cFirst.ranked = cRanked /\ cFirst.output = cOutput

TierKinds == {"Highly popular choice in the community", "Well-regarded by users",
              "Trusted by early adopters"}
ReviewKinds == {"/5 rating from reviews", "user reviews"}
UpvoteKind == "upvotes from Product Hunt community"

\* the tier sentence the claim names for a votesCount
TierFor(product) ==
    LET v == IF Has(product, "votesCount") THEN product.votesCount ELSE 0
    IN  IF v > 500 THEN "Highly popular choice in the community"
        ELSE IF 200 < v /\ v <= 500 THEN "Well-regarded by users"
        ELSE "Trusted by early adopters"

ReasonsAsClaimed(product, reasons) ==
    LET n  == Len(reasons)
        up == OrZero(product, "votesCount") > 0
        rv == OrZero(product, "reviewsCount") > 0
    IN  /\ n >= 1
        /\ reasons[n].kind = TierFor(product)
        /\ Cardinality({k \in 1..n : reasons[k].kind \in TierKinds}) = 1
        /\ n = 1 + (IF up THEN 1 ELSE 0) + (IF rv THEN 1 ELSE 0)
        /\ up <=> (reasons[1].kind = UpvoteKind)
        /\ rv <=> (\E k \in 1..(n - 1) :
                     /\ reasons[k].kind \in ReviewKinds
                     /\ \A m \in 1..(k - 1) : reasons[m].kind = UpvoteKind)

\* C10: generateJustification: the reasons end with exactly one tier sentence,
\* 'Highly popular' for votesCount > 500, 'Well-regarded' for 200 < votesCount
\* <= 500, 'Trusted by early adopters' otherwise (missing values included); an
\* upvote sentence precedes it iff votesCount > 0 and a rating/review sentence
\* sits between them iff reviewsCount > 0.
C10_ReasonsTotal ==
    (cVariant = "ph" /\ cPc = "justified") =>
        \A i \in 1..Len(cOutput) :
            ReasonsAsClaimed(Top3("ph", cRanked)[i], cOutput[i].justification.reasons)

\* a product with exactly 500 votes and reviews got its three reasons, and
\* one without votesCount got the tier sentence alone
C10_Witness ==
    /\ cVariant = "ph" /\ cPc = "justified" /\ Len(cOutput) = 1
    /\ \/ /\ cRanked[1].votesCount = 500 /\ cRanked[1].reviewsCount > 0
          /\ Len(cOutput[1].justification.reasons) = 3
       \/ /\ ~Has(cRanked[1], "votesCount")
          /\ Len(cOutput[1].justification.reasons) = 1

\* C11: scoreProducts never throws: for every list of records in which any
\* field (the attributes object of the G2 revisions, topics and a topic's name
\* in the Product Hunt revision included) may be missing or null, it returns a
\* list of the same length.
C11_NeverThrows ==
    /\ cPc # "threw"
    /\ CoreScored => Len(cRanked) = Len(cProducts)

\* ------------------------------------------------------ POST /api/scan
C_blank == <<" ", " ">>

\* req.body: criteria missing, empty, blank, or one of the criteria texts
Bodies ==
    {[criteria |-> <<>>, absent |-> {"criteria"}]}
    \cup {[criteria |-> c, absent |-> {}] : c \in {<<>>, C_blank} \cup Criteria}

\* !criteria || criteria.trim().length === 0
CriteriaMissing(b) ==
    ~Has(b, "criteria") \/ b.criteria = <<>> \/ Len(Trim(b.criteria)) = 0

\* what the Product Hunt query can reply with
PostsUpstream ==
    {r \in PHFew : r.name = T_Foo /\ (r.tagline = <<>> => r.votesCount = 501)}
    \cup {r \in PHPosts :
            /\ r.absent = {"tagline"} /\ r.name = T_Foo /\ r.description = <<>>
            /\ r.topics = <<>> /\ r.votesCount = 0 /\ r.reviewsCount = 0
            /\ r.reviewsRating = 0}

\* what the G2 products endpoint can reply with
ProductsUpstream ==
    {r \in G2Products :
        /\ r.name = T_Foo /\ r.detail_description = <<>> /\ r.avgRating = 0
        /\ \/ /\ r.absent = {"reviews"} /\ r.description = <<>>
              /\ r.starRating = 50 /\ r.reviewCount = 0
           \/ /\ r.absent = {} /\ r.description = T_aTask /\ r.reviews = <<T_Love>>
              /\ r.starRating = 0 /\ r.reviewCount = 51
           \/ /\ r.absent = {} /\ r.description = <<>> /\ r.reviews = <<<<>>>>
              /\ r.starRating = 50 /\ r.reviewCount = 101}

\* a G2 product whose first review comes without its attributes object
BareReviewProduct ==
    [id |-> 0, name |-> T_Foo, description |-> <<>>, detail_description |-> <<>>,
     starRating |-> 50, reviewCount |-> 101, avgRating |-> 0, reviews |-> <<<<>>>>,
     absent |-> {"reviewAttributes"}]

\* the lists the collaborator replies with; the G2 endpoint can also put the
\* product with the bare review first
Replies(v) ==
    LET S == IF v = "ph" THEN PostsUpstream ELSE ProductsUpstream
        plain == UNION {Lists(S, n) : n \in 0..MaxPosts}
        bare  == IF v = "ph" THEN {}
                 ELSE {<<BareReviewProduct>> \o l : l \in {k \in plain : Len(k) < MaxPosts}}
    IN  {WithIds(l) : l \in plain \cup bare}

\* topReview.attributes.comment_answers throws a TypeError: the v1 revision
\* reads it without the ?. the v2 revision has
ReviewThrows(v, products, id) ==
    LET p == products[CHOOSE i \in 1..Len(products) : products[i].id = id]
    IN  v = "v1" /\ "reviewAttributes" \in p.absent

Thrown == [kind |-> "TypeError", text |-> <<>>]

Pending == [kind |-> "pending", text |-> <<>>]

\* The handler up to its first await: the criteria check, then the search
\* request.  The scraping revision calls searchG2Products() without the
\* criteria: criteria.toLowerCase() throws before any request is issued and
\* the handler's catch answers 500.
PostScan(v, b, serves) ==
    /\ pc = "idle"
    /\ serves => v = "scrape"
    /\ variant' = v
    /\ body' = b
    /\ g2Serves' = serves
    /\ IF CriteriaMissing(b)
       THEN /\ response' = Response(400, "Criteria is required", <<>>)
            /\ pc' = "done"
            /\ UNCHANGED upstreamCalls
       ELSE IF v = "scrape"
       THEN /\ response' = FailureOf(v, "TypeError")
            /\ pc' = "done"
            /\ UNCHANGED upstreamCalls
       ELSE /\ response' = NoResponse
            /\ pc' = "searching"
            /\ upstreamCalls' = upstreamCalls + 1
    /\ UNCHANGED <<upstream, allProducts, ranked, top3, lookups>>

\* The search request fails (network error, GraphQL errors, a rate limit):
\* the search rethrows and the handler's catch answers 500 with the error's
\* message, here the kind of failure the upstream collaborator reported.
SearchFails(why) ==
    /\ pc = "searching"
    /\ response' = FailureOf(variant, why)
    /\ pc' = "done"
    /\ UNCHANGED <<variant, body, upstreamCalls, upstream, allProducts, ranked, top3,
                   lookups, g2Serves>>

\* The Product Hunt query replies: filter, score, slice, justify, respond.
SearchRepliesPH(posts) ==
    /\ pc = "searching" /\ variant = "ph"
    /\ upstream' = posts
    /\ LET relevantPosts  == FilterPostsPH(posts, body.criteria)
           rankedProducts == ScoreProductsPH(relevantPosts, body.criteria)
           top            == Slice3(rankedProducts)
       IN  /\ allProducts' = relevantPosts
           /\ IF Len(relevantPosts) = 0
              THEN /\ ranked' = <<>> /\ top3' = <<>>
                   /\ response' = Response(200, "No products found on Product Hunt.", <<>>)
              ELSE /\ ranked' = rankedProducts /\ top3' = top
                   /\ response' = Response(200, "results",
                                           [i \in 1..Len(top) |-> ResultPH(top[i], i)])
    /\ pc' = "done"
    /\ UNCHANGED <<variant, body, upstreamCalls, lookups, g2Serves>>

\* The G2 products endpoint replies: score, (v2: keep the reviewed,) slice,
\* and start one review lookup per entry of top3.
SearchRepliesG2(products) ==
    /\ pc = "searching" /\ variant \in {"v2", "v1"}
    /\ upstream' = products
    /\ allProducts' = products
    /\ LET rankedProducts == ScoreProducts(variant, products, body.criteria)
           top            == Top3(variant, rankedProducts)
       IN  IF Len(products) = 0
           THEN /\ ranked' = <<>> /\ top3' = <<>> /\ lookups' = <<>>
                /\ response' = Response(200, "No products found.", <<>>)
                /\ pc' = "done"
                /\ UNCHANGED upstreamCalls
           ELSE IF Len(top) = 0
           THEN /\ ranked' = rankedProducts /\ top3' = <<>> /\ lookups' = <<>>
                /\ response' = Response(200, "No matching products with reviews found.", <<>>)
                /\ pc' = "done"
                /\ UNCHANGED upstreamCalls
           ELSE /\ ranked' = rankedProducts /\ top3' = top
                /\ lookups' = [i \in 1..Len(top) |-> Pending]
                /\ upstreamCalls' = upstreamCalls + Len(top)
                /\ pc' = "lookups"
                /\ UNCHANGED response
    /\ UNCHANGED <<variant, body, g2Serves>>

\* One review lookup completes; a failed request counts as no reviews.  When
\* getTopReviewHighlight throws, the callback's promise rejects, Promise.all
\* rejects with it and the handler's catch answers 500 at once, whatever the
\* other lookups are doing.
LookupDone(i, ok) ==
    /\ pc = "lookups"
    /\ i \in 1..Len(lookups)
    /\ lookups[i] = Pending
    /\ IF ok /\ ReviewThrows(variant, upstream, top3[i].id)
       THEN /\ lookups' = [lookups EXCEPT ![i] = Thrown]
            /\ response' = FailureOf(variant, "TypeError")
            /\ pc' = "done"
       ELSE /\ lookups' = [lookups EXCEPT ![i] =
                    HighlightOfReviews(IF ok THEN ReviewsOf(upstream, top3[i].id)
                                       ELSE <<>>)]
            /\ UNCHANGED <<pc, response>>
    /\ UNCHANGED <<variant, body, upstreamCalls, upstream, allProducts, ranked, top3,
                   g2Serves>>

\* Promise.all resolved: res.json({ results: resultsWithHighlights })
Respond ==
    /\ pc = "lookups"
    /\ \A i \in 1..Len(lookups) : lookups[i] # Pending
    /\ response' = Response(200, "results",
                            [i \in 1..Len(top3) |-> ResultG2(top3[i], i, lookups[i])])
    /\ pc' = "done"
    /\ UNCHANGED <<variant, body, upstreamCalls, upstream, allProducts, ranked, top3,
                   lookups, g2Serves>>

CoreParked ==
    /\ cVariant = "ph" /\ cCriteria = <<>> /\ cProducts = <<>> /\ cRanked = <<>>
    /\ cOutput = <<>> /\ cFirst = <<>> /\ cRun = 1 /\ cPc = "off"

Init == ScanIdle /\ CoreParked /\ ScrapeParked

Next ==
    \/ \E v \in Variants, b \in Bodies, serves \in BOOLEAN :
            PostScan(v, b, serves) /\ UNCHANGED <<coreVars, scrapeVars>>
    \/ \E why \in {"error", "rateLimit"} : SearchFails(why) /\ UNCHANGED <<coreVars, scrapeVars>>
    \/ \E posts \in Replies("ph") : SearchRepliesPH(posts) /\ UNCHANGED <<coreVars, scrapeVars>>
    \/ \E products \in Replies("v2") : SearchRepliesG2(products) /\ UNCHANGED <<coreVars, scrapeVars>>
    \/ \E i \in 1..3, ok \in BOOLEAN : LookupDone(i, ok) /\ UNCHANGED <<coreVars, scrapeVars>>
    \/ Respond /\ UNCHANGED <<coreVars, scrapeVars>>

Spec == Init /\ [][Next]_vars

\* ------------------------- searchG2Products(criteria), scraping revision
\* .slice(0, 20): URLs scraped at most
ScrapeLimit == 20
\* products.length >= 10: successful scrapes after which the loop stops
ScrapeEnough == 10
\* setTimeout(resolve, 500)
DelayMs == 500

U_Prefix == <<"h","t","t","p","s",":","/","/","w","w","w",".","g","2",".","c","o","m","/","p","r","o","d","u","c","t","s","/">>
U_Suffix == <<"/","r","e","v","i","e","w","s">>
U_TaskHub == <<"T","a","s","k","-","h","u","b">>
U_Crm == <<"c","r","m">>

\* G2_PRODUCTS: the URLs of g2-products-links.json, every eleventh a CRM
G2_PRODUCTS ==
    [i \in 1..ListedUrls |->
        U_Prefix \o (IF i % 11 = 0 THEN U_Crm ELSE U_TaskHub) \o U_Suffix]

\* G2_PRODUCTS.filter(url => keywords.some(k => urlLower.includes(k)))
\*            .slice(0, 20), as positions in G2_PRODUCTS
RECURSIVE Matching(_, _)
Matching(keywords, i) ==
    IF i > ListedUrls THEN <<>>
    ELSE LET urlLower == ToLowerCase(G2_PRODUCTS[i])
             hit == \E k \in 1..Len(keywords) : Includes(urlLower, keywords[k])
         IN  (IF hit THEN <<i>> ELSE <<>>) \o Matching(keywords, i + 1)

MatchingUrls(crit) ==
    LET all == Matching(Keywords(crit, 3), 1)
    IN  SubSeq(all, 1, Min(ScrapeLimit, Len(all)))

\* the argument: undefined, or one of the criteria texts
ScrapeArgs ==
    {[criteria |-> <<>>, absent |-> {"criteria"}]}
    \cup {[criteria |-> c, absent |-> {}] : c \in Criteria}

ScrapeInit ==
    /\ sPc = "call" /\ sCriteria \in ScrapeArgs
    /\ sUrls = <<>> /\ sNext = 0 /\ sCount = 0 /\ sInFlight = 0 /\ sWaited = 0

\* where the loop goes after the url at position i with n products
AfterUrl(i, n) ==
    IF n >= ScrapeEnough \/ i >= Len(sUrls) THEN "returned" ELSE "loop"

\* searchG2Products up to its loop: criteria.toLowerCase() throws on an
\* undefined criteria and the catch rethrows
SearchCall ==
    /\ sPc = "call"
    /\ IF ~Has(sCriteria, "criteria")
       THEN sPc' = "threw" /\ UNCHANGED <<sUrls, sNext>>
       ELSE /\ sUrls' = MatchingUrls(sCriteria.criteria)
            /\ sNext' = 1
            /\ sPc' = IF Len(sUrls') = 0 THEN "returned" ELSE "loop"
    /\ UNCHANGED <<sCriteria, sCount, sInFlight, sWaited>>

\* scrapeG2Product(url): axios.get(url) is issued
ScrapeIssue ==
    /\ sPc = "loop"
    /\ sInFlight' = sInFlight + 1
    /\ sPc' = "request"
    /\ UNCHANGED <<sCriteria, sUrls, sNext, sCount, sWaited>>

\* the page arrives: products.push(product), then the 500 ms timer starts
ScrapeSucceeds ==
    /\ sPc = "request"
    /\ sInFlight' = sInFlight - 1
    /\ sCount' = sCount + 1
    /\ sWaited' = 0
    /\ sPc' = "delay"
    /\ UNCHANGED <<sCriteria, sUrls, sNext>>

\* the 500 ms timer fires; the loop goes on to the next url or stops
DelayElapses ==
    /\ sPc = "delay"
    /\ sWaited' = DelayMs
    /\ sPc' = AfterUrl(sNext, sCount)
    /\ sNext' = sNext + 1
    /\ UNCHANGED <<sCriteria, sUrls, sCount, sInFlight>>

\* the request fails: scrapeG2Product returns null, the if (product) block
\* with its timer is skipped and the loop goes on at once
ScrapeFails ==
    /\ sPc = "request"
    /\ sInFlight' = sInFlight - 1
    /\ sWaited' = 0
    /\ sPc' = AfterUrl(sNext, sCount)
    /\ sNext' = sNext + 1
    /\ UNCHANGED <<sCriteria, sUrls, sCount>>

ScrapeNext ==
    \/ SearchCall /\ UNCHANGED <<coreVars, scanVars>>
    \/ ScrapeIssue /\ UNCHANGED <<coreVars, scanVars>>
    \/ ScrapeSucceeds /\ UNCHANGED <<coreVars, scanVars>>
    \/ DelayElapses /\ UNCHANGED <<coreVars, scanVars>>
    \/ ScrapeFails /\ UNCHANGED <<coreVars, scanVars>>

InitScrape == ScrapeInit /\ ScanIdle /\ CoreParked

SpecScrape == InitScrape /\ [][ScrapeNext]_vars

\* C15: searchG2Products of the scraping revision issues its scrape requests
\* strictly one at a time, and 500 ms of delay elapse between every two
\* consecutive scrape requests, whether the earlier one succeeded or failed.
C15_DelayBetweenScrapes ==
    /\ sInFlight <= 1
    /\ (sPc = "request" /\ sNext > 1) => sWaited = DelayMs

\* the requests are one at a time, and the delay follows the successful ones
C15_DelayAfterSuccess ==
    /\ sInFlight <= 1
    /\ sPc = "delay" => sInFlight = 0 /\ sCount >= 1
    /\ sCount <= ScrapeEnough /\ Len(sUrls) <= ScrapeLimit /\ sNext <= Len(sUrls) + 1

\* ---------------------------------------------------- claims on /api/scan
Answered == pc = "done" /\ response.status = 200

\* C3: Product Hunt revision: when the criteria has a usable keyword, every
\* post that passed the keyword filter of searchProductHunt and was scored has
\* relevanceScore > 0, so no result of the scan has relevanceScore = 0.
C3_FilteredAreRelevant ==
    (variant = "ph" /\ Answered /\ Keywords(body.criteria, 2) # <<>>) =>
        /\ \A i \in 1..Len(ranked) : ranked[i].relevanceScore > 0
        /\ \A i \in 1..Len(top3) : top3[i].relevanceScore > 0

\* C4: Product Hunt revision: when the criteria has no usable keyword, all n
\* upstream posts pass through and the scan returns the top min(3, n) of them.
C4_NoKeywordsPassAll ==
    (variant = "ph" /\ Answered /\ Keywords(body.criteria, 2) = <<>>) =>
        /\ Len(allProducts) = Len(upstream)
        /\ Len(response.results) = Min(3, Len(upstream))

Ids(s) == {s[i].id : i \in 1..Len(s)}
ScoreOfId(id) == ranked[CHOOSE i \in 1..Len(ranked) : ranked[i].id = id].score

\* reviewCount > 0, as the handler's filter reads it
Reviewed(product) == OrZero(product, "reviewCount") > 0

\* the qualifying records as the claim has them: reviewed in every G2 revision
QualifyingClaimed ==
    IF variant = "ph" THEN Ids(FilterPostsPH(upstream, body.criteria))
    ELSE Ids(SelectSeq(upstream, Reviewed))

\* the qualifying records of the code: the G2 API v1 revision keeps every
\* product the search returned
Qualifying ==
    IF variant = "v1" THEN Ids(upstream) ELSE QualifyingClaimed

\* the results are the min(3, q) first of the score-descending list of Q
Top3Of(Q) ==
    LET res == response.results
        n   == Len(res)
    IN  /\ response.kind = "results"
        /\ n = Min(3, Cardinality(Q))
        /\ \A i \in 1..n : res[i].rank = i /\ res[i].id \in Q
        /\ \A i, j \in 1..n : i < j =>
               res[i].id # res[j].id /\ ScoreOfId(res[i].id) >= ScoreOfId(res[j].id)
        /\ \A x \in Q \ Ids(res) : \A i \in 1..n : ScoreOfId(x) <= ScoreOfId(res[i].id)

\* C9 as stated: with q >= 1 qualifying records (in the G2 revisions: those
\* with reviewCount > 0) a successful scan returns exactly min(3, q) results,
\* ranked 1..min(3, q), the first of the score-descending qualifying list.
C9_Top3Claimed ==
    (Answered /\ Cardinality(QualifyingClaimed) >= 1) => Top3Of(QualifyingClaimed)

\* C9 amended: the same, where in the G2 API v1 revision every product the
\* search returned qualifies (only v2 keeps reviewCount > 0; Product Hunt
\* keeps the posts that passed the keyword filter).
C9_Top3Slicing ==
    (Answered /\ Cardinality(Qualifying) >= 1) => Top3Of(Qualifying)

\* the v2 revision answered with three of four reviewed products of two
\* different scores
C9_Witness ==
    /\ variant = "v2" /\ Answered
    /\ Cardinality(Qualifying) = 4
    /\ Len(response.results) = 3
    /\ \E x \in Qualifying \ Ids(response.results) :
           ScoreOfId(x) < ScoreOfId(response.results[1].id)

\* the highlights a lookup for this product can fetch: the one of its reviews,
\* or the fallback after a failed request
HighlightsFor(id) ==
    {HighlightOfReviews(ReviewsOf(upstream, id)), HighlightOfReviews(<<>>)}

\* the lookups were started for this request
FannedOut == variant \in {"v2", "v1"} /\ Len(lookups) > 0

\* C12: G2 API revisions: whatever the order in which the highlight lookups of
\* the top three complete, failed ones included, the response is sent only
\* after all of them have finished, and its i-th entry has rank i, describes
\* the i-th product of top3 and carries a highlight fetched for that product.
C12_HighlightsInOrder ==
    /\ (FannedOut /\ response # NoResponse) =>
           \A i \in 1..Len(lookups) : lookups[i] # Pending
    /\ (FannedOut /\ pc = "done") =>
           /\ response.status = 200
           /\ Len(response.results) = Len(top3)
           /\ \A i \in 1..Len(response.results) :
                  /\ response.results[i].rank = i
                  /\ response.results[i].id = top3[i].id
                  /\ response.results[i].justification.score = Round(top3[i].score, 10)
                  /\ response.results[i].justification.highlight
                         \in HighlightsFor(top3[i].id)
           /\ \A i \in 1..(Len(top3) - 1) : top3[i].score >= top3[i + 1].score

\* the same on the requests the v2 revision serves
C12_HighlightsInOrderV2 == variant = "v2" => C12_HighlightsInOrder

\* C13: when the upstream collaborator reports a rate limit during a scan, the
\* response differs from the generic upstream-failure response and carries a
\* retry-after duration.
C13_RateLimitSignalled ==
    (pc = "done" /\ "message" \in DOMAIN response /\ response.message = "rateLimit") =>
        /\ response # FailureOf(variant, "error")
        /\ response.status # 500 \/ response.kind # FailureOf(variant, "error").kind
        /\ "retryAfter" \in DOMAIN response

\* C14: a request whose criteria is missing, empty or blank is rejected with
\* status 400 and an error body and no upstream request is issued for it; a
\* request whose criteria is non-empty after trimming proceeds to the upstream
\* search.
C14_CriteriaGate ==
    pc # "idle" =>
        IF CriteriaMissing(body)
        THEN /\ pc = "done" /\ upstreamCalls = 0
             /\ response = Response(400, "Criteria is required", <<>>)
        ELSE upstreamCalls >= 1 /\ response.status # 400

\* the same on the requests the other three revisions serve
C14_CriteriaGateApi == variant # "scrape" => C14_CriteriaGate

\* C16: scraping revision: the handler passes the criteria to the product
\* search, so a request whose criteria is non-empty after trimming, with a
\* listed URL that contains one of its keywords and that g2.com serves, ends
\* in a success response with one to three results, not in the 500 path.
C16_ScrapeScanSucceeds ==
    (/\ variant = "scrape" /\ pc = "done" /\ ~CriteriaMissing(body)
     /\ Len(MatchingUrls(body.criteria)) > 0 /\ g2Serves) =>
        /\ response.status = 200
        /\ response.kind = "results"
        /\ Len(response.results) \in 1..3

====
